---- MODULE Spec2Model ----
(***************************************************************************)
(* cdsexec/mockcmd: the single-response mock (MockCmd) and the             *)
(* multi-configuration matcher (MultiCmdMockCmd) as a state machine.       *)
(*                                                                         *)
(* Go slices are modelled as they are built: a []byte is a header          *)
(* (ptr, len, cap) over a flat byte memory, ptr = 0 being the nil slice;   *)
(* a []string is its element sequence plus whether the slice is nil        *)
(* (reflect.DeepEqual tells a nil slice from an empty one).                *)
(***************************************************************************)
EXTENDS Integers, Sequences, FiniteSets, TLC

VARIABLES
    ctor,     \* the CommandConstructor closure under test: its kind and captured values
    configs,  \* the []CommandConfig captured by MultiCmdMock (the expectation list)
    mem,      \* byte memory backing every configured []byte
    cmds,     \* the command objects, by object id (0: the one MakeMockCmd was given)
    ref,      \* for each caller slot, the object its Commander points at (-1: none yet)
    ret,      \* what the latest operation returned to its caller
    attempt   \* for each caller slot, how the latest Run/Output/CombinedOutput on its
              \* Commander ended as the caller saw it: "none" yet, "matched" (a
              \* configured result came back) or "unmatched" (ErrNoMatchingCommand did)

vars == <<ctor, configs, mem, cmds, ref, ret, attempt>>

----------------------------------------------------------------------------
(* Bounds of the model *)

MemSize == 3
MaxArgs == 2
MaxConfigs == 2
NumHandles == 2

Names == {"ls", "cat"}
ArgVals == {"-l"}
Addrs == 1..MemSize
Slots == 1..NumHandles

----------------------------------------------------------------------------
(* Values *)

NilErr == "nil"
ErrNoMatchingCommand == "no matching command found in this mock"
ErrPermission == "permission denied"
ErrNotFound == "executable file not found in $PATH"
ErrCheck == "unexpected command"

\* []string: nil, or a non-nil slice of 0..MaxArgs elements
NilStrs == [isNil |-> TRUE, elems |-> <<>>]
Strs(s) == [isNil |-> FALSE, elems |-> s]
StrSeqs == UNION {[1..n -> ArgVals] : n \in 0..MaxArgs}
StrSlices == {NilStrs} \cup {Strs(s) : s \in StrSeqs}

\* []byte header
NilBytes == [ptr |-> 0, len |-> 0, cap |-> 0]
ByteSlices ==
    {NilBytes} \cup
    {[ptr |-> p, len |-> l, cap |-> c] :
        p \in Addrs, l \in 1..MemSize, c \in 1..MemSize}

\* the bytes a slice shows, read from memory m
Bytes(s, m) == [i \in 1..s.len |-> m[s.ptr + i - 1]]

\* a constructor's own allocation for the command in slot h lies past the test's
\* memory, one cell per slot
Private(h) == MemSize + h

\* memory as the test wrote it before building the constructor: byte a at address
\* a, and nothing (0) yet where the constructors will allocate
InitMem == [a \in 1..(MemSize + NumHandles) |-> IF a <= MemSize THEN a ELSE 0]

----------------------------------------------------------------------------
(* Go built-ins the code relies on *)

\* reflect.DeepEqual on two []string: both nil or both non-nil, and equal elements
DeepEqual(a, b) == a.isNil = b.isNil /\ a.elems = b.elems

\* strings.Join(a, " "): only the elements count, a nil slice joins like an empty one
Join(a) == a.elems

\* a slice header over a freshly allocated array (no configured storage behind it)
Fresh == -1
FreshBytes(n) == [ptr |-> Fresh, len |-> n, cap |-> n]

\* the value handed back for a []byte: its header and the bytes it shows
Out(hdr, bytes) == [hdr |-> hdr, bytes |-> bytes]
NoOut == Out(NilBytes, <<>>)

\* append(s, t...) on []byte, with memory m: returns the result and the memory after.
\* Nothing to add: s itself. Room within cap(s): t is copied in place behind s
\* (memmove, so t is read as it was before the copy). Otherwise a new array.
AppendBytes(s, t, m) ==
    IF t.len = 0 THEN
        [out |-> Out(s, Bytes(s, m)), mem |-> m]
    ELSE IF s.len + t.len <= s.cap THEN
        LET dst == s.ptr + s.len
            m2 == [a \in DOMAIN m |->
                     IF a >= dst /\ a < dst + t.len THEN m[t.ptr + (a - dst)] ELSE m[a]]
        IN [out |-> Out([ptr |-> s.ptr, len |-> s.len + t.len, cap |-> s.cap],
                        Bytes(s, m) \o Bytes(t, m)),
            mem |-> m2]
    ELSE
        [out |-> Out(FreshBytes(s.len + t.len), Bytes(s, m) \o Bytes(t, m)), mem |-> m]

----------------------------------------------------------------------------
(* MockCmd *)

NoCheck == "nil"
CheckFuncs == {NoCheck} \cup Names

\* the validation predicate of the README example: f is the command name it expects
CheckFunc(f, m) == IF m.Name = f THEN NilErr ELSE ErrCheck

\* CommandConfig, and a *CommandConfig (nil, or pointing at a copy v of a config)
CommandConfig(name, args, stdout, stderr, err) ==
    [Name |-> name, Args |-> args, Stdout |-> stdout, Stderr |-> stderr, Err |-> err]
ZeroConfig == CommandConfig("", NilStrs, NilBytes, NilBytes, NilErr)
NilPtr == [isNil |-> TRUE, v |-> ZeroConfig]
PtrTo(config) == [isNil |-> FALSE, v |-> config]

\* an empty slot: the constructor has not been invoked for it
NoCmd == [kind |-> "none"]

\* &MockCmd{Ctx: ctx, Name: name, Args: arg}: every other field is its zero value
mockCommandContext(ctx, name, arg) ==
    [kind |-> "MockCmd",
     Stdout |-> NilBytes, Stderr |-> NilBytes, Err |-> NilErr,
     Ctx |-> ctx, Name |-> name, Args |-> arg, Dir |-> "", Env |-> NilStrs,
     CheckFunc |-> NoCheck, startCalled |-> FALSE, waitCalled |-> FALSE,
     lastMatchedCmd |-> NilPtr]

\* what a method leaves behind: the receiver, the memory, and its return values
Result(m, memory, out, err) == [m |-> m, mem |-> memory, out |-> out, err |-> err]

\* Run as exec.Cmd would do it: a command whose context is done fails with the
\* context's error
MockCmd_Run_HonoursContext(m, memory) ==
    IF m.Ctx = "cancelled"
    THEN Result(m, memory, NoOut, "context canceled")
    ELSE IF m.CheckFunc # NoCheck /\ CheckFunc(m.CheckFunc, m) # NilErr
    THEN Result(m, memory, NoOut, CheckFunc(m.CheckFunc, m))
    ELSE Result(m, memory, NoOut, m.Err)

MockCmd_Run(m, memory) ==
    IF m.CheckFunc # NoCheck /\ CheckFunc(m.CheckFunc, m) # NilErr
    THEN Result(m, memory, NoOut, CheckFunc(m.CheckFunc, m))
    ELSE Result(m, memory, NoOut, m.Err)

\* Output without the CheckFunc guard: the canned result whatever the predicate says
MockCmd_Output_Unchecked(m, memory) ==
    Result(m, memory, Out(m.Stdout, Bytes(m.Stdout, memory)), m.Err)

MockCmd_Output(m, memory) ==
    IF m.CheckFunc # NoCheck /\ CheckFunc(m.CheckFunc, m) # NilErr
    THEN Result(m, memory, NoOut, CheckFunc(m.CheckFunc, m))
    ELSE Result(m, memory, Out(m.Stdout, Bytes(m.Stdout, memory)), m.Err)

MockCmd_CombinedOutput(m, memory) ==
    IF m.CheckFunc # NoCheck /\ CheckFunc(m.CheckFunc, m) # NilErr
    THEN Result(m, memory, NoOut, CheckFunc(m.CheckFunc, m))
    ELSE LET a == AppendBytes(m.Stdout, m.Stderr, memory)
         IN Result(m, a.mem, a.out, m.Err)

MockCmd_Start(m, memory) ==
    LET m1 == [m EXCEPT !.startCalled = TRUE]
    IN IF m1.CheckFunc # NoCheck
       THEN Result(m1, memory, NoOut, CheckFunc(m1.CheckFunc, m1))
       ELSE Result(m1, memory, NoOut, m1.Err)

MockCmd_Wait(m, memory) ==
    LET m1 == [m EXCEPT !.waitCalled = TRUE]
    IN Result(m1, memory, NoOut, m1.Err)

\* an empty mockWriteCloser: nothing of the command is in it
MockCmd_StdinPipe(m, memory) == Result(m, memory, NoOut, NilErr)

\* a reader over the command's own Stdout / Stderr slice
MockCmd_StdoutPipe(m, memory) ==
    Result(m, memory, Out(m.Stdout, Bytes(m.Stdout, memory)), NilErr)

MockCmd_StderrPipe(m, memory) ==
    Result(m, memory, Out(m.Stderr, Bytes(m.Stderr, memory)), NilErr)

MockCmd_SetDir(m, dir) == [m EXCEPT !.Dir = dir]
MockCmd_SetEnv(m, env) == [m EXCEPT !.Env = env]

\* SetStdin, SetStdout, SetStderr, Process, ProcessState: empty bodies
MockCmd_NoOp(m) == m

\* []byte(fixedOutput): a new array at address at holding the string's bytes
ToBytes(fixedOutput, at, memory) ==
    [slice |-> [ptr |-> at, len |-> Len(fixedOutput), cap |-> Len(fixedOutput)],
     mem |-> [a \in DOMAIN memory |->
                IF a >= at /\ a < at + Len(fixedOutput)
                THEN fixedOutput[a - at + 1] ELSE memory[a]]]

\* the closures of the single-response factories, invoked with (ctx, name, arg):
\* the command they return and the memory after
MakeMockCmdWithOutput(fixedOutput, checkFunc, ctx, name, arg, at, memory) ==
    LET b == ToBytes(fixedOutput, at, memory)
    IN [m |-> [mockCommandContext(ctx, name, arg) EXCEPT
                  !.Stdout = b.slice, !.CheckFunc = checkFunc],
        mem |-> b.mem]

MakeMockCmdWithOutputGenericError(checkFunc, ctx, name, arg, memory) ==
    [m |-> [mockCommandContext(ctx, name, arg) EXCEPT
               !.CheckFunc = checkFunc, !.Err = ErrNotFound],
     mem |-> memory]

MakeMockCmdWithOutputSpecificError(fixedOutput, specificError, checkFunc, ctx, name, arg, at, memory) ==
    LET b == ToBytes(fixedOutput, at, memory)
    IN [m |-> [mockCommandContext(ctx, name, arg) EXCEPT
                  !.Stdout = b.slice, !.CheckFunc = checkFunc, !.Err = specificError],
        mem |-> b.mem]

\* MakeMockCmd's closure returns the command c it was given, whatever it is invoked with
MakeMockCmd(c, ctx, name, arg, memory) == [m |-> c, mem |-> memory]

----------------------------------------------------------------------------
(* MultiCmdMockCmd: a MockCmd plus the shared configs and lastMatchedCmd *)

\* the first index of cfgs, from i on, whose Name and Args equal m's; 0 if none
RECURSIVE FirstMatch(_, _, _)
FirstMatch(m, cfgs, i) ==
    IF i > Len(cfgs) THEN 0
    ELSE IF m.Name = cfgs[i].Name /\ DeepEqual(m.Args, cfgs[i].Args) THEN i
    ELSE FirstMatch(m, cfgs, i + 1)

\* matchCommand without its first statement: the earlier lastMatchedCmd survives a
\* call that matches nothing
matchCommand_KeepsLastMatched(m, cfgs) ==
    LET i == FirstMatch(m, cfgs, 1)
    IN IF i # 0
       THEN [m |-> [m EXCEPT !.Stdout = cfgs[i].Stdout,
                             !.Stderr = cfgs[i].Stderr,
                             !.Err = cfgs[i].Err,
                             !.lastMatchedCmd = PtrTo(cfgs[i])],
             err |-> NilErr]
       ELSE [m |-> [m EXCEPT !.Stderr = NilBytes,
                             !.Err = ErrNoMatchingCommand],
             err |-> NilErr]

\* matchCommand that adopts the matched result but does not record the match
matchCommand_ForgetsLastMatched(m, cfgs) ==
    LET i == FirstMatch(m, cfgs, 1)
    IN IF i # 0
       THEN [m |-> [m EXCEPT !.Stdout = cfgs[i].Stdout,
                             !.Stderr = cfgs[i].Stderr,
                             !.Err = cfgs[i].Err,
                             !.lastMatchedCmd = NilPtr],
             err |-> NilErr]
       ELSE [m |-> [m EXCEPT !.Stderr = NilBytes,
                             !.Err = ErrNoMatchingCommand,
                             !.lastMatchedCmd = NilPtr],
             err |-> NilErr]

matchCommand(m, cfgs) ==
    LET i == FirstMatch(m, cfgs, 1)
    IN IF i # 0
       THEN [m |-> [m EXCEPT !.Stdout = cfgs[i].Stdout,
                             !.Stderr = cfgs[i].Stderr,
                             !.Err = cfgs[i].Err,
                             !.lastMatchedCmd = PtrTo(cfgs[i])],
             err |-> NilErr]
       ELSE [m |-> [m EXCEPT !.Stderr = NilBytes,
                             !.Err = ErrNoMatchingCommand,
                             !.lastMatchedCmd = NilPtr],
             err |-> NilErr]

MultiCmdMockCmd_Run(m, cfgs, memory) ==
    LET mc == matchCommand(m, cfgs)
    IN IF mc.err # NilErr THEN Result(mc.m, memory, NoOut, mc.err)
       ELSE Result(mc.m, memory, NoOut, mc.m.Err)

MultiCmdMockCmd_Output(m, cfgs, memory) ==
    LET mc == matchCommand(m, cfgs)
    IN IF mc.err # NilErr THEN Result(mc.m, memory, NoOut, mc.err)
       ELSE Result(mc.m, memory, Out(mc.m.Stdout, Bytes(mc.m.Stdout, memory)), mc.m.Err)

MultiCmdMockCmd_CombinedOutput(m, cfgs, memory) ==
    LET mc == matchCommand(m, cfgs)
    IN IF mc.err # NilErr THEN Result(mc.m, memory, NoOut, mc.err)
       ELSE LET a == AppendBytes(mc.m.Stdout, mc.m.Stderr, memory)
            IN Result(mc.m, a.mem, a.out, mc.m.Err)

\* the diagnostic: which of the two texts, and the name and joined args it prints
MultiCmdMockCmd_String(m) ==
    IF m.lastMatchedCmd.isNil
    THEN [text |-> "No matching command found for", name |-> m.Name, args |-> Join(m.Args)]
    ELSE [text |-> "Matched command", name |-> m.lastMatchedCmd.v.Name,
          args |-> Join(m.lastMatchedCmd.v.Args)]

\* the closure MultiCmdMock returns: &MultiCmdMockCmd{configs: configs} (configs is
\* the shared list, read through the variable of that name), then Ctx, Name, Args set
MultiCmdMock(ctx, name, arg) ==
    [kind |-> "MultiCmdMockCmd",
     Stdout |-> NilBytes, Stderr |-> NilBytes, Err |-> NilErr,
     Ctx |-> ctx, Name |-> name, Args |-> arg, Dir |-> "", Env |-> NilStrs,
     CheckFunc |-> NoCheck, startCalled |-> FALSE, waitCalled |-> FALSE,
     lastMatchedCmd |-> NilPtr]

----------------------------------------------------------------------------
(* Method sets: MultiCmdMockCmd embeds MockCmd, overriding Run, Output and
   CombinedOutput and adding String; every other method is MockCmd's *)

Run(m, cfgs, memory) ==
    IF m.kind = "MultiCmdMockCmd" THEN MultiCmdMockCmd_Run(m, cfgs, memory)
    ELSE MockCmd_Run(m, memory)

Output(m, cfgs, memory) ==
    IF m.kind = "MultiCmdMockCmd" THEN MultiCmdMockCmd_Output(m, cfgs, memory)
    ELSE MockCmd_Output(m, memory)

CombinedOutput(m, cfgs, memory) ==
    IF m.kind = "MultiCmdMockCmd" THEN MultiCmdMockCmd_CombinedOutput(m, cfgs, memory)
    ELSE MockCmd_CombinedOutput(m, memory)

----------------------------------------------------------------------------
(* State *)

Objs == 0..NumHandles
NoRef == -1
Ctxs == {"background"}
Dirs == {"/tmp"}
Envs == {NilStrs}

NoStr == [text |-> "", name |-> "", args |-> <<>>]
Ret(h, op, out, err, str) == [slot |-> h, op |-> op, out |-> out, err |-> err, str |-> str]
NoRet == Ret(0, "none", NoOut, NilErr, NoStr)

Live(h) == ref[h] # NoRef
Cmd(h) == cmds[ref[h]]

\* the calls that produce a result
ResultOps == {"Run", "Output", "CombinedOutput"}

\* a method call on slot h's object that returned r (see Result)
Returned(h, op, r) ==
    /\ cmds' = [cmds EXCEPT ![ref[h]] = r.m]
    /\ mem' = r.mem
    /\ ret' = Ret(h, op, r.out, r.err, NoStr)
    /\ attempt' = IF op \in ResultOps
                  THEN [attempt EXCEPT ![h] = IF r.err = ErrNoMatchingCommand
                                              THEN "unmatched" ELSE "matched"]
                  ELSE attempt
    /\ UNCHANGED <<ctor, configs, ref>>

----------------------------------------------------------------------------
(* Inputs of the matcher's specification *)

CfgErrs == {NilErr, ErrPermission}

\* the invocations a caller makes
Patterns == Names \X StrSlices

\* the (name, args) patterns a test configures: no arguments given as a nil slice,
\* no arguments given as an empty slice, one argument
CfgPatterns == {<<"ls", NilStrs>>, <<"ls", Strs(<<>>)>>, <<"ls", Strs(<<"-l">>)>>}

\* the canned results a test configures, its byte slices carved out of the memory
\* it wrote (InitMem), as Go expressions over that memory buf:
\*   Stdout: buf[0:1:2], Stderr: buf[2:3], no error      (stdout with spare capacity)
\*   Stdout: buf[1:2],   no stderr,        an error      (output alongside an error)
\*   Stdout: buf[0:1:3], Stderr: buf[0:2], no error      (stderr overlapping stdout)
Payloads ==
    { <<[ptr |-> 1, len |-> 1, cap |-> 2], [ptr |-> 3, len |-> 1, cap |-> 1], NilErr>>,
      <<[ptr |-> 2, len |-> 1, cap |-> 1], NilBytes, ErrPermission>>,
      <<[ptr |-> 1, len |-> 1, cap |-> 3], [ptr |-> 1, len |-> 2, cap |-> 2], NilErr>> }

Configurations ==
    {CommandConfig(p[1], p[2], r[1], r[2], r[3]) : p \in CfgPatterns, r \in Payloads}

ConfigLists == UNION {[1..n -> Configurations] : n \in 1..MaxConfigs}

\* a constructor closure: which factory made it, and what it captured
Ctor(kind, fixedOutput, err, checkFunc) ==
    [kind |-> kind, fixedOutput |-> fixedOutput, err |-> err, checkFunc |-> checkFunc]

Init ==
    /\ ctor = Ctor("MultiCmdMock", <<>>, NilErr, NoCheck)
    /\ configs \in ConfigLists
    /\ mem = InitMem
    /\ cmds = [o \in Objs |-> NoCmd]
    /\ ref = [h \in Slots |-> NoRef]
    /\ ret = NoRet
    /\ attempt = [h \in Slots |-> "none"]

----------------------------------------------------------------------------
(* Operations *)

\* the constructor under test invoked for slot h: the object its Commander points
\* at (a new one, or for MakeMockCmd the one object 0), that object, and the memory
Invoke(h, ctx, name, arg) ==
    CASE ctor.kind = "MultiCmdMock" ->
            [id |-> h, m |-> MultiCmdMock(ctx, name, arg), mem |-> mem]
      [] ctor.kind = "MakeMockCmdWithOutput" ->
            LET c == MakeMockCmdWithOutput(ctor.fixedOutput, ctor.checkFunc,
                                           ctx, name, arg, Private(h), mem)
            IN [id |-> h, m |-> c.m, mem |-> c.mem]
      [] ctor.kind = "MakeMockCmdWithOutputGenericError" ->
            LET c == MakeMockCmdWithOutputGenericError(ctor.checkFunc, ctx, name, arg, mem)
            IN [id |-> h, m |-> c.m, mem |-> c.mem]
      [] ctor.kind = "MakeMockCmdWithOutputSpecificError" ->
            LET c == MakeMockCmdWithOutputSpecificError(ctor.fixedOutput, ctor.err,
                                                        ctor.checkFunc,
                                                        ctx, name, arg, Private(h), mem)
            IN [id |-> h, m |-> c.m, mem |-> c.mem]
      [] OTHER ->
            LET c == MakeMockCmd(cmds[0], ctx, name, arg, mem)
            IN [id |-> 0, m |-> c.m, mem |-> c.mem]

\* cmd := constructor(ctx, name, arg...)
Construct(h, ctx, name, arg) ==
    LET c == Invoke(h, ctx, name, arg)
    IN /\ cmds' = [cmds EXCEPT ![c.id] = c.m]
       /\ mem' = c.mem
       /\ ref' = [ref EXCEPT ![h] = c.id]
       /\ ret' = Ret(h, "new", NoOut, NilErr, NoStr)
       /\ attempt' = [attempt EXCEPT ![h] = "none"]
       /\ UNCHANGED <<ctor, configs>>

\* cmd.Name = name, cmd.Args = arg: the exported fields are the caller's to assign
AssignName(h, name) ==
    /\ Live(h)
    /\ cmds' = [cmds EXCEPT ![ref[h]].Name = name]
    /\ ret' = Ret(h, "assign", NoOut, NilErr, NoStr)
    /\ UNCHANGED <<ctor, configs, mem, ref, attempt>>

AssignArgs(h, arg) ==
    /\ Live(h)
    /\ cmds' = [cmds EXCEPT ![ref[h]].Args = arg]
    /\ ret' = Ret(h, "assign", NoOut, NilErr, NoStr)
    /\ UNCHANGED <<ctor, configs, mem, ref, attempt>>

CallRun(h) == Live(h) /\ Returned(h, "Run", Run(Cmd(h), configs, mem))

CallOutput(h) == Live(h) /\ Returned(h, "Output", Output(Cmd(h), configs, mem))

CallCombinedOutput(h) ==
    Live(h) /\ Returned(h, "CombinedOutput", CombinedOutput(Cmd(h), configs, mem))

CallString(h) ==
    /\ Live(h)
    /\ Cmd(h).kind = "MultiCmdMockCmd"
    /\ ret' = Ret(h, "String", NoOut, NilErr, MultiCmdMockCmd_String(Cmd(h)))
    /\ UNCHANGED <<ctor, configs, mem, cmds, ref, attempt>>

CallStart(h) == Live(h) /\ Returned(h, "Start", MockCmd_Start(Cmd(h), mem))

CallWait(h) == Live(h) /\ Returned(h, "Wait", MockCmd_Wait(Cmd(h), mem))

CallStdinPipe(h) == Live(h) /\ Returned(h, "StdinPipe", MockCmd_StdinPipe(Cmd(h), mem))

CallStdoutPipe(h) == Live(h) /\ Returned(h, "StdoutPipe", MockCmd_StdoutPipe(Cmd(h), mem))

CallStderrPipe(h) == Live(h) /\ Returned(h, "StderrPipe", MockCmd_StderrPipe(Cmd(h), mem))

CallSetDir(h, dir) ==
    Live(h) /\ Returned(h, "set", Result(MockCmd_SetDir(Cmd(h), dir), mem, NoOut, NilErr))

CallSetEnv(h, env) ==
    Live(h) /\ Returned(h, "set", Result(MockCmd_SetEnv(Cmd(h), env), mem, NoOut, NilErr))

\* SetStdin, SetStdout, SetStderr, Process, ProcessState
CallNoOp(h) ==
    Live(h) /\ Returned(h, "set", Result(MockCmd_NoOp(Cmd(h)), mem, NoOut, NilErr))

\* the matcher's own operations: construction, the caller's field assignments,
\* the three result-producing calls and the diagnostic
MatcherStep(h) ==
    \/ \E ctx \in Ctxs, p \in Patterns : Construct(h, ctx, p[1], p[2])
    \/ \E name \in Names : AssignName(h, name)
    \/ \E arg \in StrSlices : AssignArgs(h, arg)
    \/ CallRun(h)
    \/ CallOutput(h)
    \/ CallCombinedOutput(h)
    \/ CallString(h)

\* the operations promoted from the embedded MockCmd
PromotedStep(h) ==
    \/ CallStart(h)
    \/ CallWait(h)
    \/ CallStdinPipe(h)
    \/ CallStdoutPipe(h)
    \/ CallStderrPipe(h)
    \/ \E dir \in Dirs : CallSetDir(h, dir)
    \/ \E env \in Envs : CallSetEnv(h, env)
    \/ CallNoOp(h)

\* Spec: one caller using the matcher through one Commander at a time
Next == MatcherStep(1)

Spec == Init /\ [][Next]_vars

\* SpecAll: the whole Commander interface on a matcher with a single expectation
InitAll == Init /\ Len(configs) = 1

NextAll == MatcherStep(1) \/ PromotedStep(1)

SpecAll == InitAll /\ [][NextAll]_vars

----------------------------------------------------------------------------
(* SpecMock: the single-response factories *)

FixedOutputs == {<<>>, <<9>>}

\* the commands a test hands to MakeMockCmd: &MockCmd{Name, Stdout, Stderr, Err, CheckFunc}
GivenCmds ==
    {[mockCommandContext("background", n, NilStrs) EXCEPT
         !.Stdout = r[1], !.Stderr = r[2], !.Err = r[3], !.CheckFunc = f] :
       n \in {"", "ls"}, r \in Payloads, f \in CheckFuncs}

MockCtors ==
    {Ctor("MakeMockCmdWithOutput", o, NilErr, f) : o \in FixedOutputs, f \in CheckFuncs}
    \cup {Ctor("MakeMockCmdWithOutputGenericError", <<>>, NilErr, f) : f \in CheckFuncs}
    \cup {Ctor("MakeMockCmdWithOutputSpecificError", o, e, f) :
             o \in FixedOutputs, e \in CfgErrs, f \in CheckFuncs}
    \cup {Ctor("MakeMockCmd", <<>>, NilErr, NoCheck)}

InitMock ==
    /\ ctor \in MockCtors
    /\ configs = <<>>
    /\ mem = InitMem
    /\ cmds \in IF ctor.kind = "MakeMockCmd"
               THEN {[o \in Objs |-> IF o = 0 THEN c ELSE NoCmd] : c \in GivenCmds}
               ELSE {[o \in Objs |-> NoCmd]}
    /\ ref = [h \in Slots |-> NoRef]
    /\ ret = NoRet
    /\ attempt = [h \in Slots |-> "none"]

MockStep(h) ==
    \/ \E ctx \in Ctxs, p \in Patterns : Construct(h, ctx, p[1], p[2])
    \/ CallRun(h)
    \/ CallOutput(h)
    \/ CallCombinedOutput(h)

NextMock == MockStep(1) \/ PromotedStep(1)

SpecMock == InitMock /\ [][NextMock]_vars

----------------------------------------------------------------------------
(* SpecEach: one constructor of a single-response factory invoked once per slot,
   each slot with its own command name and arguments *)

\* the invocation that creates the Commander of slot h
InvokedName(h) == IF h = 1 THEN "ls" ELSE "cat"
InvokedArgs(h) == IF h = 1 THEN NilStrs ELSE Strs(<<"-l">>)

EachStep(h) ==
    \/ \E ctx \in Ctxs : Construct(h, ctx, InvokedName(h), InvokedArgs(h))
    \/ CallRun(h)
    \/ CallOutput(h)
    \/ CallCombinedOutput(h)

NextEach == \E h \in Slots : EachStep(h)

SpecEach == InitMock /\ [][NextEach]_vars

----------------------------------------------------------------------------
(* SpecCtx: every factory, its constructor invoked with a live context or with one
   that is already cancelled *)

AllCtxs == {"background", "cancelled"}

InitCtx == InitAll \/ InitMock

\* the invocations made: each configured pattern, and a command that is not configured
CtxPatterns == CfgPatterns \cup {<<"cat", NilStrs>>}

CtxStep(h) ==
    \/ \E ctx \in AllCtxs, p \in CtxPatterns : Construct(h, ctx, p[1], p[2])
    \/ CallRun(h)
    \/ CallOutput(h)
    \/ CallCombinedOutput(h)
    \/ CallString(h)

NextCtx == CtxStep(1) \/ PromotedStep(1)

SpecCtx == InitCtx /\ [][NextCtx]_vars

----------------------------------------------------------------------------
(* SpecTwo: several Commanders made by separate invocations of one MultiCmdMock
   constructor, their calls interleaved *)

TwoStep(h) ==
    \/ \E ctx \in Ctxs, p \in CfgPatterns : Construct(h, ctx, p[1], p[2])
    \/ CallRun(h)
    \/ CallOutput(h)
    \/ CallCombinedOutput(h)
    \/ CallString(h)

NextTwo == \E h \in Slots : TwoStep(h)

SpecTwo == Init /\ [][NextTwo]_vars

----------------------------------------------------------------------------
(* The vocabulary of the claims *)

\* two invocations are the same: equal names, and argument sequences of the same
\* length with equal elements at every position
SameInvocation(m, config) == m.Name = config.Name /\ m.Args.elems = config.Args.elems

\* the (name, args) patterns of the expectation list are pairwise distinct
DistinctPatterns ==
    \A i, j \in DOMAIN configs : i # j => ~SameInvocation(configs[i], configs[j])

\* the latest operation was op in ops, on the Commander d
Did(ops) == ret.op \in ops
d == cmds[ref[ret.slot]]

\* the Commander d took configs[i] for its match: the call recorded a copy of it
TookFor(i) == d.lastMatchedCmd = PtrTo(configs[i])

\* the addresses behind a configured byte slice: its whole backing storage
Storage(s) == {a \in DOMAIN mem : s.ptr # 0 /\ a >= s.ptr /\ a < s.ptr + s.cap}

----------------------------------------------------------------------------
(* C1: with pairwise distinct patterns, a Commander made with exactly the name and
   args of expectation E returns E's stdout bytes and E's error from Output(), and
   E's error from Run(), whether or not that error is nil. *)
C1_ExactInvocationGetsExpectation ==
    \A i \in DOMAIN configs :
        (Did({"Run", "Output"}) /\ DistinctPatterns /\ SameInvocation(d, configs[i]))
        => /\ ret.err = configs[i].Err
           /\ ret.op = "Output" => ret.out.bytes = Bytes(configs[i].Stdout, mem)

(* C2: Output() and CombinedOutput() on a Commander whose current name and args
   equal no expectation return empty output and ErrNoMatchingCommand, whatever was
   called on it before. *)
C2_UnmatchedReturnsEmptyAndSentinel ==
    (Did({"Output", "CombinedOutput"})
        /\ \A i \in DOMAIN configs : ~SameInvocation(d, configs[i]))
    => ret.out.bytes = <<>> /\ ret.err = ErrNoMatchingCommand

(* C3: a call matches an expectation if and only if the names are equal and the
   argument sequences are equal element by element, zero arguments included. *)
C3_MatchIffSameInvocation ==
    Did(ResultOps)
    => ((~d.lastMatchedCmd.isNil) <=> (\E i \in DOMAIN configs : SameInvocation(d, configs[i])))

(* C4: every execution operation of a matcher Commander whose name and args match
   no expectation returns ErrNoMatchingCommand, Start() and Wait() included, also
   when no result-producing call came before. *)
C4_UnmatchedExecutionReturnsSentinel ==
    (Did(ResultOps \cup {"Start", "Wait"})
        /\ \A i \in DOMAIN configs : ~SameInvocation(d, configs[i]))
    => ret.err = ErrNoMatchingCommand

(* C5: CombinedOutput() on a Commander that matches expectation E returns E's
   stdout bytes followed by E's stderr bytes, and E's error, on every call. *)
C5_CombinedIsStdoutThenStderr ==
    \A i \in DOMAIN configs :
        (Did({"CombinedOutput"}) /\ SameInvocation(d, configs[i]) /\ TookFor(i))
        => /\ ret.out.bytes =
                Bytes(configs[i].Stdout, InitMem) \o Bytes(configs[i].Stderr, InitMem)
           /\ ret.err = configs[i].Err

\* the two outcomes of a result-producing call
MatchedOutcome ==
    /\ ~d.lastMatchedCmd.isNil
    /\ \E i \in DOMAIN configs : d.lastMatchedCmd.v = configs[i]
    /\ SameInvocation(d, d.lastMatchedCmd.v)
    /\ ret.err = d.lastMatchedCmd.v.Err

UnmatchedOutcome == d.lastMatchedCmd.isNil /\ ret.err = ErrNoMatchingCommand

(* C6: after every result-producing call exactly one of two things holds: the
   last-matched reference is set to an expectation equal to the Commander's name
   and args and the returned error is that expectation's, or the reference is unset
   and the returned error is ErrNoMatchingCommand. *)
C6_ExactlyOneOutcome ==
    Did(ResultOps) => (MatchedOutcome /\ ~UnmatchedOutcome) \/ (UnmatchedOutcome /\ ~MatchedOutcome)

\* a call that matched nothing, on a Commander whose earlier call had matched (its
\* Stdout is still that expectation's): the reference was set, and is unset again
C6_Witness ==
    /\ Did(ResultOps)
    /\ UnmatchedOutcome
    /\ d.Stdout # NilBytes

(* C7: String() reflects only the latest matching attempt: "No matching command
   found for" the Commander's name and args before any result-producing call, and
   after one "Matched command" exactly when that latest call matched. *)
C7_StringReflectsLatestAttempt ==
    Did({"String"}) =>
        /\ (ret.str.text = "Matched command") <=> (attempt[ret.slot] = "matched")
        /\ (ret.str.text = "No matching command found for") <=> (attempt[ret.slot] # "matched")
        /\ attempt[ret.slot] # "matched" => ret.str.name = d.Name /\ ret.str.args = Join(d.Args)

\* the diagnostic after a call that did not match, on a Commander whose earlier
\* call had matched (its Stdout is still the matched expectation's)
C7_Witness ==
    /\ Did({"String"})
    /\ attempt[ret.slot] = "unmatched"
    /\ d.Stdout # NilBytes
    /\ ret.str.text = "No matching command found for"

(* C8: no operation on a Commander of the factory changes the expectation list:
   its length and order, each expectation's fields, and the storage backing its
   byte slices stay as they were at construction. *)
C8_ExpectationsNeverChange ==
    [][ /\ configs' = configs
        /\ \A i \in DOMAIN configs :
             \A a \in Storage(configs[i].Stdout) \cup Storage(configs[i].Stderr) :
                 mem'[a] = mem[a] ]_vars

\* the outcome of op as the first call of a fresh Commander made for expectation i
FirstCall(op, i) ==
    LET fresh == MultiCmdMock("background", configs[i].Name, configs[i].Args)
    IN CASE op = "Run" -> Run(fresh, configs, InitMem)
         [] op = "Output" -> Output(fresh, configs, InitMem)
         [] OTHER -> CombinedOutput(fresh, configs, InitMem)

(* C9: expectations are never consumed: every one of the identical invocations
   matching expectation E, on one Commander or on fresh ones, returns what the
   first of them returned. *)
C9_RepeatsReturnTheFirstOutcome ==
    \A i \in DOMAIN configs :
        (Did(ResultOps) /\ SameInvocation(d, configs[i]) /\ TookFor(i))
        => /\ ret.err = FirstCall(ret.op, i).err
           /\ ret.out.bytes = FirstCall(ret.op, i).out.bytes

(* C10: on a single-response mock, Run, Output and CombinedOutput consult the
   validation predicate first: when it fails the call returns the predicate's
   failure and no output; when it is absent or passes the call returns the
   command's Err, and Output returns the bytes of its Stdout, CombinedOutput the
   bytes of its Stdout followed by the bytes of its Stderr (the fields as they
   are when the call is made). *)
C10_PredicateBeforeResult ==
    [][ret'.op \in ResultOps =>
         LET m == cmds[ref[ret'.slot]]
             fails == m.CheckFunc # NoCheck /\ m.Name # m.CheckFunc
         IN IF fails
            THEN ret'.err = ErrCheck /\ ret'.out = NoOut
            ELSE /\ ret'.err = m.Err
                 /\ ret'.op = "Run" => ret'.out = NoOut
                 /\ ret'.op = "Output" => ret'.out.bytes = Bytes(m.Stdout, mem)
                 /\ ret'.op = "CombinedOutput" =>
                        ret'.out.bytes = Bytes(m.Stdout, mem) \o Bytes(m.Stderr, mem)
    ]_vars

\* a failing predicate has taken the place of a canned output and a canned error
C10_Witness ==
    /\ Did({"Output", "CombinedOutput"})
    /\ d.kind = "MockCmd"
    /\ ret.err = ErrCheck /\ ret.out = NoOut
    /\ d.Stdout.len > 0 /\ d.Err = ErrPermission

(* C11: with a constructor of any single-response factory, the predicate run by a
   Commander sees the command name and the arguments of the invocation that
   created that Commander: its verdict is the predicate's verdict on that
   invocation's own name. *)
C11_PredicateSeesOwnInvocation ==
    Did(ResultOps) =>
        /\ d.Name = InvokedName(ret.slot)
        /\ d.Args = InvokedArgs(ret.slot)
        /\ d.CheckFunc # NoCheck =>
              ((ret.err = ErrCheck) <=> (InvokedName(ret.slot) # d.CheckFunc))

\* the command m had its constructor been given the context c
WithCtx(m, c) == [m EXCEPT !.Ctx = c]

\* what a caller can tell of a call: its return values, the memory, and the
\* command it leaves behind, the stored context apart
Seen(r) == [m |-> WithCtx(r.m, "background"), mem |-> r.mem, out |-> r.out, err |-> r.err]

\* what every operation of the Commander m would give if it were called now
Outcomes(m) ==
    [Run |-> Seen(Run(m, configs, mem)),
     Output |-> Seen(Output(m, configs, mem)),
     CombinedOutput |-> Seen(CombinedOutput(m, configs, mem)),
     String |-> IF m.kind = "MultiCmdMockCmd" THEN MultiCmdMockCmd_String(m) ELSE NoStr,
     Start |-> Seen(MockCmd_Start(m, mem)),
     Wait |-> Seen(MockCmd_Wait(m, mem)),
     StdinPipe |-> Seen(MockCmd_StdinPipe(m, mem)),
     StdoutPipe |-> Seen(MockCmd_StdoutPipe(m, mem)),
     StderrPipe |-> Seen(MockCmd_StderrPipe(m, mem)),
     SetDir |-> [dir \in Dirs |-> WithCtx(MockCmd_SetDir(m, dir), "background")],
     SetEnv |-> [env \in Envs |-> WithCtx(MockCmd_SetEnv(m, env), "background")],
     NoOp |-> WithCtx(MockCmd_NoOp(m), "background")]

(* C12: the result of every operation is independent of the context given at
   construction: in every state a Commander reaches, each operation returns the
   same output, error and diagnostic, and leaves the same command and memory, as
   it does on the Commander made with the other context (live or cancelled), and
   the constructor builds the same command for either context. *)
C12_ContextNeverConsulted ==
    /\ \A h \in Slots : Live(h) =>
          \A c \in AllCtxs : Outcomes(WithCtx(Cmd(h), c)) = Outcomes(Cmd(h))
    /\ \A h \in Slots, p \in Patterns, c \in AllCtxs :
          /\ WithCtx(Invoke(h, c, p[1], p[2]).m, "background")
                = WithCtx(Invoke(h, "background", p[1], p[2]).m, "background")
          /\ Invoke(h, c, p[1], p[2]).mem = Invoke(h, "background", p[1], p[2]).mem

\* a Commander made with the cancelled context has returned a canned output
C12_Witness ==
    /\ Did({"Output", "CombinedOutput"})
    /\ d.Ctx = "cancelled"
    /\ ret.err = NilErr
    /\ ret.out.bytes # <<>>

(* C13: when several expectations have a pattern equal to the invocation, the
   outcome and the last-matched reference are those of the lowest-index one, so an
   expectation that repeats the pattern of an earlier one is never returned. *)
C13_LowestIndexWins ==
    \A i, k \in DOMAIN configs :
        (/\ Did(ResultOps)
         /\ i < k
         /\ SameInvocation(d, configs[i]) /\ SameInvocation(d, configs[k])
         /\ \A j \in 1..(i - 1) : ~SameInvocation(d, configs[j]))
        => /\ TookFor(i)
           /\ ret.err = configs[i].Err

(* C14: on a single-response mock Start() returns the same error as Run() would:
   the predicate's failure when the predicate fails, and the configured error,
   nil or not, when the predicate is absent or passes. *)
C14_StartReturnsWhatRunWould ==
    (Did({"Start"}) /\ d.kind = "MockCmd")
    => /\ ret.err = Run(d, configs, mem).err
       /\ ret.err = IF d.CheckFunc # NoCheck /\ d.Name # d.CheckFunc
                    THEN ErrCheck ELSE d.Err

(* C15: Commanders made by separate invocations of one MultiCmdMock constructor
   share no mutable state: no call on one of them writes storage that a call on
   another one reads or writes, the bytes behind the other's Stdout and Stderr
   (those of an expectation both have matched included). *)
C15_HandlesShareNoStorage ==
    [][ \A h, g \in Slots :
          (/\ h # g
           /\ ret'.slot = h /\ ret'.op \in ResultOps \cup {"String"}
           /\ Live(g))
          => \A a \in Storage(Cmd(g).Stdout) \cup Storage(Cmd(g).Stderr) :
                mem'[a] = mem[a] ]_vars

====
